---- MODULE Spec2Model ----
(***************************************************************************)
(* A model of glmtuner.chat.stream_chat.ChatModel: the prompt template     *)
(* (get_prompt), the resolution of the generation configuration            *)
(* (process_args), the blocking chat call and the streaming chat call      *)
(* (a background thread feeding a TextIteratorStreamer that the caller     *)
(* drains).                                                                *)
(*                                                                         *)
(* Text is a sequence of characters, each character a one-element string;  *)
(* the three non-ASCII characters of the template are written by their     *)
(* code points ("U+95EE", "U+FF1A", "U+7B54").  A Python value that may be *)
(* None is a set: None is {}, and a value v is {v}.                        *)
(***************************************************************************)
EXTENDS Integers, Sequences, FiniteSets, TLC

VARIABLES
    query,            \* argument: the new query (text)
    history,          \* argument: None or a sequence of <<query, response>>
    prefix,           \* argument: None or a text
    source_prefix,    \* self.source_prefix
    generating_args,  \* self.generating_args.to_dict(): key -> value
    input_kwargs,     \* **input_kwargs: a sequence of <<key, value>>, in call order
    model_output,     \* the new tokens self.model.generate produces for this input
    prompt,           \* what get_prompt returned (None before the call)
    gen_kwargs,       \* what process_args returned, first component
    prompt_length,    \* what process_args returned, second component
    chat_pc,          \* chat: "idle", "generating", "returned", "raised"
    chat_error,       \* chat: the exception it raised ("" if none)
    response,         \* chat: the returned response (None until it returns)
    usage,            \* chat: the returned (prompt_length, response_length)
    cons,             \* stream_chat generator: "created", "waiting", "done", "failed"
    cons_error,       \* the exception that ended the generator ("" if none)
    thread,           \* the background thread: "unstarted", "running", "finished", "raised", "stalled"
    thread_kwargs,    \* the kwargs the thread runs self.model.generate with
    thread_pos,       \* how many streamer.put calls generate has made
    streamer,         \* the TextIteratorStreamer (None until it is constructed)
    produced,         \* every fragment the streamer has queued, in order
    yielded,          \* every fragment the generator has yielded, in order
    waited,           \* time units the current text_queue.get has been blocked
    extra_next        \* next() calls made on the generator after it ended

vars == <<query, history, prefix, source_prefix, generating_args, input_kwargs,
          model_output, prompt, gen_kwargs, prompt_length, chat_pc, chat_error,
          response, usage, cons, cons_error, thread, thread_kwargs, thread_pos,
          streamer, produced, yielded, waited, extra_next>>

inputVars == <<query, history, prefix, source_prefix, generating_args,
               input_kwargs, model_output>>
chatVars == <<chat_pc, chat_error, response, usage>>
streamVars == <<cons, cons_error, thread, thread_kwargs, thread_pos, streamer,
                produced, yielded, waited, extra_next>>

-----------------------------------------------------------------------------
(* Python values *)

None == {}
Some(v) == {v}
Val(o) == CHOOSE v \in o : TRUE

\* truth value of an Optional[str] / Optional[list]: None and the empty one are falsy
TruthySeq(o) == o # None /\ o # Some(<<>>)
\* truth value of an Optional number: None and zero are falsy
TruthyNum(o) == o # None /\ o # Some(0)

RECURSIVE Concat(_)
Concat(ss) == IF ss = <<>> THEN <<>> ELSE Head(ss) \o Concat(Tail(ss))

IsPrefix(s, t) == Len(s) <= Len(t) /\ SubSeq(t, 1, Len(s)) = s

\* whether text t occurs in text p starting at position i
HasAt(p, i, t) == i + Len(t) - 1 <= Len(p) /\ SubSeq(p, i, i + Len(t) - 1) = t

-----------------------------------------------------------------------------
(* get_prompt *)

NL == "\n"
Digits == <<"0", "1", "2", "3", "4", "5", "6", "7", "8", "9">>

\* "{}".format(n) for an int n >= 0
RECURSIVE Str(_)
Str(n) == IF n < 10 THEN <<Digits[n + 1]>> ELSE Str(n \div 10) \o <<Digits[(n % 10) + 1]>>

RoundOpen == <<"[", "R", "o", "u", "n", "d", " ">>
AskMark == <<"]", NL, NL, "U+95EE", "U+FF1A">>
AnswerMark == <<NL, NL, "U+7B54", "U+FF1A">>
BlockEnd == <<NL, NL>>

\* "[Round {}]\n\n[ask]{}\n\n[answer]{}\n\n".format(n, q, r)
HistoryBlock(n, q, r) == RoundOpen \o Str(n) \o AskMark \o q \o AnswerMark \o r \o BlockEnd
\* "[Round {}]\n\n[ask]{}\n\n[answer]".format(n, q)
QueryBlock(n, q) == RoundOpen \o Str(n) \o AskMark \o q \o AnswerMark

\* prefix = prefix + "\n" if prefix else ""
PrefixPartNoSeparator(pfx) == IF TruthySeq(pfx) THEN Val(pfx) ELSE <<>>
PrefixPart(pfx) == IF TruthySeq(pfx) THEN Val(pfx) \o <<NL>> ELSE <<>>

\* history = history if history else []
HistoryOrEmpty(h) == IF TruthySeq(h) THEN Val(h) ELSE <<>>

\* the round number of the block at enumerate index i (0-based): i+1
RoundNumberZeroBased(i) == i
RoundNumber(i) == i + 1

\* for i, (old_query, response) in enumerate(history): prompt += ...
RECURSIVE HistoryBlocks(_, _)
HistoryBlocks(h, i) ==
    IF i >= Len(h) THEN <<>>
    ELSE HistoryBlock(RoundNumber(i), h[i + 1][1], h[i + 1][2]) \o HistoryBlocks(h, i + 1)

get_prompt(q, h, pfx) ==
    LET hist == HistoryOrEmpty(h)
    IN  PrefixPart(pfx) \o (HistoryBlocks(hist, 0) \o QueryBlock(RoundNumber(Len(hist)), q))

-----------------------------------------------------------------------------
(* process_args *)

SamplingKeys == {"temperature", "top_p", "top_k", "repetition_penalty"}
LengthKeys == {"max_length", "max_new_tokens"}

\* self.tokenizer([text]): one token per character, followed by the special
\* tokens the tokenizer appends to every input
GMASK == "[gMASK]"
SOP == "<sop>"
EOS == "<eop>"
SpecialTokens == {GMASK, SOP, EOS}
Tokenize(text) == text \o <<GMASK, SOP>>

\* input_kwargs.pop(key, None)
KwPop(kw, key) ==
    IF \E i \in 1..Len(kw) : kw[i][1] = key
    THEN kw[CHOOSE i \in 1..Len(kw) : kw[i][1] = key][2]
    ELSE None

\* d.pop(key, None) and d[key] = v on a dict d
DictPop(d, key) == [k \in (DOMAIN d) \ {key} |-> d[k]]
DictSet(d, key, v) == [k \in (DOMAIN d) \cup {key} |-> IF k = key THEN v ELSE d[k]]

\* a or b, on Optional numbers
PyOrNotNone(a, b) == IF a # None THEN a ELSE b
PyOr(a, b) == IF TruthyNum(a) THEN a ELSE b

\* gen_kwargs.update(dict(input_ids=..., temperature=..., ..., logits_processor=...))
UpdateSampling(d, input_ids, temperature, top_p, top_k, repetition_penalty) ==
    LET d1 == DictSet(d, "input_ids", input_ids)
        d2 == DictSet(d1, "temperature", PyOr(temperature, d["temperature"]))
        d3 == DictSet(d2, "top_p", PyOr(top_p, d["top_p"]))
        d4 == DictSet(d3, "top_k", PyOr(top_k, d["top_k"]))
        d5 == DictSet(d4, "repetition_penalty", PyOr(repetition_penalty, d["repetition_penalty"]))
    IN  DictSet(d5, "logits_processor", "get_logits_processor()")

\* if max_length: gen_kwargs.pop("max_new_tokens", None); gen_kwargs["max_length"] = max_length
ApplyMaxLengthNoPop(d, max_length) ==
    IF TruthyNum(max_length) THEN DictSet(d, "max_length", max_length) ELSE d
ApplyMaxLength(d, max_length) ==
    IF TruthyNum(max_length)
    THEN DictSet(DictPop(d, "max_new_tokens"), "max_length", max_length)
    ELSE d

\* if max_new_tokens: gen_kwargs.pop("max_length", None); gen_kwargs["max_new_tokens"] = max_new_tokens
ApplyMaxNewTokens(d, max_new_tokens) ==
    IF TruthyNum(max_new_tokens)
    THEN DictSet(DictPop(d, "max_length"), "max_new_tokens", max_new_tokens)
    ELSE d

\* the two ifs, in the order of the code: max_length first, max_new_tokens second
ResolveLengthSwapped(d, max_length, max_new_tokens) ==
    ApplyMaxLength(ApplyMaxNewTokens(d, max_new_tokens), max_length)
ResolveLength(d, max_length, max_new_tokens) ==
    ApplyMaxNewTokens(ApplyMaxLength(d, max_length), max_new_tokens)

\* process_args(query, history, prefix, **input_kwargs) -> (gen_kwargs, prompt_length)
process_args(q, h, pfx, kw, src_prefix, gen_args) ==
    LET pfx1 == IF TruthySeq(pfx) THEN pfx ELSE Some(src_prefix)
        input_ids == Tokenize(get_prompt(q, h, pfx1))
        d == UpdateSampling(gen_args, input_ids,
                            KwPop(kw, "temperature"), KwPop(kw, "top_p"),
                            KwPop(kw, "top_k"), KwPop(kw, "repetition_penalty"))
    IN  [gen_kwargs |-> ResolveLength(d, KwPop(kw, "max_length"), KwPop(kw, "max_new_tokens")),
         prompt_length |-> Len(input_ids)]

-----------------------------------------------------------------------------
(* generation, decoding and the streamer *)

\* self.tokenizer.decode(tokens, skip_special_tokens=True)
Decode(tokens) == SelectSeq(tokens, LAMBDA t : t \notin SpecialTokens)

\* self.model.generate(**kwargs) run to completion: the prompt's tokens followed
\* by the new tokens
Generate(kwargs, new_tokens) == kwargs["input_ids"] \o new_tokens

\* generation_output.tolist()[0][prompt_length:]
NewTokenSpan(generation_output, n) == SubSeq(generation_output, n + 1, Len(generation_output))

\* TextIteratorStreamer(self.tokenizer, timeout=60.0, skip_prompt=True, skip_special_tokens=True)
StreamerTimeout == 60
SkipPromptOff == FALSE
SkipPrompt == TRUE
NewStreamer ==
    [next_tokens_are_prompt |-> TRUE, token_cache |-> <<>>, print_len |-> 0, text_queue |-> <<>>]

\* the stop signal of the streamer's queue is None; a fragment t is queued as Some(t)
StopSignal == None

ChineseChars == {"U+4F60", "U+95EE", "U+7B54"}
\* text.rfind(" ") + 1
AfterLastSpace(text) ==
    LET at == {i \in 1..Len(text) : text[i] = " "}
    IN  IF at = {} THEN 0 ELSE CHOOSE i \in at : \A j \in at : j <= i

\* streamer.on_finalized_text(text, stream_end)
OnFinalizedText(st, text, stream_end) ==
    [st EXCEPT !.text_queue =
        IF stream_end THEN @ \o <<Some(text), StopSignal>> ELSE Append(@, Some(text))]

\* streamer.put(value): the prompt is skipped; the text of the cached tokens is
\* released up to the last newline, Chinese character or space
StreamerPut(st, value) ==
    IF SkipPrompt /\ st.next_tokens_are_prompt
    THEN [st EXCEPT !.next_tokens_are_prompt = FALSE]
    ELSE LET cache == st.token_cache \o value
             text == Decode(cache)
             rest == SubSeq(text, st.print_len + 1, Len(text))
             words == SubSeq(text, st.print_len + 1, AfterLastSpace(text))
         IN  IF text # <<>> /\ text[Len(text)] = NL
             THEN OnFinalizedText([st EXCEPT !.token_cache = <<>>, !.print_len = 0], rest, FALSE)
             ELSE IF text # <<>> /\ text[Len(text)] \in ChineseChars
             THEN OnFinalizedText([st EXCEPT !.token_cache = cache,
                                             !.print_len = @ + Len(rest)], rest, FALSE)
             ELSE OnFinalizedText([st EXCEPT !.token_cache = cache,
                                             !.print_len = @ + Len(words)], words, FALSE)

\* streamer.end(): the text still held back is released, then the stop signal
StreamerEnd(st) ==
    LET text == Decode(st.token_cache)
        rest == IF st.token_cache # <<>> THEN SubSeq(text, st.print_len + 1, Len(text)) ELSE <<>>
    IN  OnFinalizedText([st EXCEPT !.token_cache = <<>>, !.print_len = 0,
                                   !.next_tokens_are_prompt = TRUE], rest, TRUE)

\* the fragments among the entries a queue gained
RECURSIVE Fragments(_)
Fragments(q) ==
    IF q = <<>> THEN <<>>
    ELSE IF Head(q) = StopSignal THEN Fragments(Tail(q))
    ELSE <<Val(Head(q))>> \o Fragments(Tail(q))
Gained(old, new) == Fragments(SubSeq(new, Len(old) + 1, Len(new)))

\* self.text_queue.get(timeout=self.timeout) gives up once it has waited the timeout
GetNeverExpires(w) == FALSE
GetExpired(w) == w >= StreamerTimeout

\* for new_text in streamer: yield new_text
YieldNonEmpty(y, new_text) == IF new_text = <<>> THEN y ELSE Append(y, new_text)
YieldText(y, new_text) == Append(y, new_text)

\* Thread(target=self.model.generate, kwargs=gen_kwargs): an exception of the
\* target ends the thread and leaves the streamer as it is
ThreadDiesClosing(st) == [st EXCEPT !.text_queue = Append(@, StopSignal)]
ThreadDies(st) == st

-----------------------------------------------------------------------------
(* inputs *)

MaxTurns == 2

QueryTexts == {<<>>, <<"A">>, <<"B">>}
ResponseTexts == {<<>>, <<"1">>, <<"1", NL>>}
PrefixTexts == {<<>>, <<"P">>, <<"P", NL>>}

Turns == QueryTexts \X ResponseTexts
Histories == UNION {[1..n -> Turns] : n \in 0..MaxTurns}

\* the values a sampling override may be given: None, zero, a non-zero value
SamplingOverrides == {None, Some(0), Some(9)}
MaxLengthOverrides == {None, Some(0), Some(50)}
MaxNewTokensOverrides == {None, Some(0), Some(20)}

\* a keyword argument that is either not supplied (<<>>) or supplied with a value
KwChoices(values) == {<<>>} \cup {<<v>> : v \in values}
KwEntry(key, c) == IF c = <<>> THEN <<>> ELSE << <<key, c[1]>> >>

\* GeneratingArguments.to_dict(): the session's decoding defaults, holding
\* exactly one of max_length and max_new_tokens
SamplingDefaults ==
    { [temperature |-> Some(1), top_p |-> Some(2), top_k |-> Some(3), repetition_penalty |-> Some(4)],
      [temperature |-> Some(7), top_p |-> Some(7), top_k |-> Some(7), repetition_penalty |-> Some(7)] }
SessionDefaults ==
    { DictSet(d, "max_length", Some(2048)) : d \in SamplingDefaults }
    \cup { DictSet(d, "max_new_tokens", Some(512)) : d \in SamplingDefaults }

\* the new tokens the model may produce for a call
ModelOutputs ==
    { <<EOS>>,
      <<"x", EOS>>,
      <<"x", " ", "y", EOS>>,
      <<"y", NL, "x">>,
      <<"U+4F60", "x", " ", EOS>> }

\* a cap on the clock of a blocked get, and on the next() calls after the end
MaxWait == 62
MaxExtraNext == 1

IdleCalls ==
    /\ prompt = None
    /\ gen_kwargs = None
    /\ prompt_length = None
    /\ chat_pc = "idle"
    /\ chat_error = ""
    /\ response = None
    /\ usage = None
    /\ cons = "created"
    /\ cons_error = ""
    /\ thread = "unstarted"
    /\ thread_kwargs = None
    /\ thread_pos = 0
    /\ streamer = None
    /\ produced = <<>>
    /\ yielded = <<>>
    /\ waited = 0
    /\ extra_next = 0

-----------------------------------------------------------------------------
(* the specification of get_prompt calls *)

InitPrompt ==
    /\ query \in QueryTexts
    /\ history \in {None} \cup {Some(h) : h \in Histories}
    /\ prefix \in {None} \cup {Some(p) : p \in PrefixTexts}
    /\ source_prefix = <<>>
    /\ generating_args = <<>>
    /\ input_kwargs = <<>>
    /\ model_output = <<>>
    /\ IdleCalls

GetPromptCall ==
    /\ prompt = None
    /\ prompt' = Some(get_prompt(query, history, prefix))
    /\ UNCHANGED <<inputVars, gen_kwargs, prompt_length, chatVars, streamVars>>

NextPrompt == GetPromptCall

SpecPrompt == InitPrompt /\ [][NextPrompt]_vars

-----------------------------------------------------------------------------
(* properties of get_prompt *)

\* the positions of p at which a round block opens
RoundStarts(p) == {i \in 1..Len(p) : HasAt(p, i, RoundOpen)}
\* the text of the block opening at i: up to the next block's opening, or the end
RoundText(p, i) ==
    LET later == {j \in RoundStarts(p) : j > i}
        last == IF later = {} THEN Len(p)
                ELSE (CHOOSE j \in later : \A k \in later : j <= k) - 1
    IN  SubSeq(p, i, last)
\* the 1-based rank of the block opening at i among the blocks of p
RoundRank(p, i) == Cardinality({j \in RoundStarts(p) : j <= i})

ExampleHistory == <<<< <<"A">>, <<"1">> >>>>
ExamplePrompt ==
    <<"[", "R", "o", "u", "n", "d", " ", "1", "]", "\n", "\n", "U+95EE", "U+FF1A", "A",
      "\n", "\n", "U+7B54", "U+FF1A", "1", "\n", "\n",
      "[", "R", "o", "u", "n", "d", " ", "2", "]", "\n", "\n", "U+95EE", "U+FF1A", "B",
      "\n", "\n", "U+7B54", "U+FF1A">>
IsExampleCall ==
    /\ query = <<"B">>
    /\ history = Some(ExampleHistory)
    /\ ~TruthySeq(prefix)

\* C9: for a history of N turns, the prompt holds exactly N+1 round blocks; the
\* k-th block is numbered k; block k <= N carries the k-th turn's query and
\* response, block N+1 carries the new query and an empty response; and the
\* call history=[("A","1")], query="B", empty prefix gives the example prompt.
C9_RoundBlocks ==
    prompt # None =>
        LET p == Val(prompt)
            h == IF history = None THEN <<>> ELSE Val(history)
            N == Len(h)
        IN  /\ Cardinality(RoundStarts(p)) = N + 1
            /\ \A i \in RoundStarts(p) :
                   LET k == RoundRank(p, i)
                       head == <<"[", "R", "o", "u", "n", "d", " ", Digits[k + 1], "]",
                                 "\n", "\n", "U+95EE", "U+FF1A">>
                       answer == <<"\n", "\n", "U+7B54", "U+FF1A">>
                   IN  RoundText(p, i) =
                          IF k <= N
                          THEN head \o h[k][1] \o answer \o h[k][2] \o <<"\n", "\n">>
                          ELSE head \o query \o answer
            /\ IsExampleCall => p = ExamplePrompt

C9_Witness ==
    /\ IsExampleCall
    /\ prompt = Some(ExamplePrompt)

\* C10: with an empty or absent prefix the prompt starts with the first round
\* block; with a non-empty prefix it starts with the prefix, followed by one
\* newline, followed directly by the first round block.
C10_PrefixSeparator ==
    prompt # None =>
        LET p == Val(prompt)
        IN  IF prefix = None \/ prefix = Some(<<>>)
            THEN HasAt(p, 1, <<"[", "R", "o", "u", "n", "d", " ", "1", "]">>)
            ELSE LET x == Val(prefix)
                 IN  /\ HasAt(p, 1, x)
                     /\ HasAt(p, Len(x) + 1, <<"\n", "[", "R", "o", "u", "n", "d", " ", "1", "]">>)

C10_Witness ==
    /\ prompt # None
    /\ prefix = Some(<<"P">>)
    /\ HasAt(Val(prompt), 1, <<"P", "\n", "[">>)

-----------------------------------------------------------------------------
(* the specification of process_args calls *)

InitArgs ==
    /\ query = <<"B">>
    /\ history = Some(ExampleHistory)
    /\ prefix \in {None, Some(<<"P">>)}
    /\ source_prefix \in {<<>>, <<"S">>}
    /\ generating_args \in SessionDefaults
    /\ \E ct, cp, ck, cr \in KwChoices(SamplingOverrides),
          cl \in KwChoices(MaxLengthOverrides),
          cn \in KwChoices(MaxNewTokensOverrides),
          length_first \in BOOLEAN :
          input_kwargs =
              KwEntry("temperature", ct) \o KwEntry("top_p", cp) \o KwEntry("top_k", ck)
              \o KwEntry("repetition_penalty", cr)
              \o (IF length_first
                  THEN KwEntry("max_length", cl) \o KwEntry("max_new_tokens", cn)
                  ELSE KwEntry("max_new_tokens", cn) \o KwEntry("max_length", cl))
    /\ model_output = <<>>
    /\ IdleCalls

ProcessArgsCall ==
    /\ gen_kwargs = None
    /\ LET r == process_args(query, history, prefix, input_kwargs, source_prefix, generating_args)
       IN  /\ gen_kwargs' = Some(r.gen_kwargs)
           /\ prompt_length' = Some(r.prompt_length)
    /\ UNCHANGED <<inputVars, prompt, chatVars, streamVars>>

NextArgs == ProcessArgsCall

SpecArgs == InitArgs /\ [][NextArgs]_vars

-----------------------------------------------------------------------------
(* properties of process_args *)

\* the position of key in the call's keyword arguments, 0 when it is not supplied
SuppliedAt(key) ==
    IF \E i \in 1..Len(input_kwargs) : input_kwargs[i][1] = key
    THEN CHOOSE i \in 1..Len(input_kwargs) : input_kwargs[i][1] = key
    ELSE 0
\* key is supplied with a value that is neither None nor zero
SuppliedNonZero(key) ==
    /\ SuppliedAt(key) # 0
    /\ input_kwargs[SuppliedAt(key)][2] \notin {None, Some(0)}
SuppliedValue(key) == input_kwargs[SuppliedAt(key)][2]
Resolved == Val(gen_kwargs)
HasKey(key) == key \in DOMAIN Resolved

C7_MostRecentWins ==
    (gen_kwargs # None /\ SuppliedNonZero("max_length") /\ SuppliedNonZero("max_new_tokens")) =>
        LET later == IF SuppliedAt("max_length") > SuppliedAt("max_new_tokens")
                     THEN "max_length" ELSE "max_new_tokens"
        IN  /\ HasKey(later)
            /\ Resolved[later] = SuppliedValue(later)
            /\ \A k \in LengthKeys \ {later} : ~HasKey(k)

\* C7 as amended: when both are supplied (non-zero), max_new_tokens wins in
\* whichever order they were supplied and max_length is absent; max_length=50
\* followed by max_new_tokens=20 resolves to max_new_tokens=20 only.
C7_MaxNewTokensWins ==
    (gen_kwargs # None /\ SuppliedNonZero("max_length") /\ SuppliedNonZero("max_new_tokens")) =>
        /\ HasKey("max_new_tokens")
        /\ Resolved["max_new_tokens"] = SuppliedValue("max_new_tokens")
        /\ ~HasKey("max_length")

C7_Witness ==
    /\ gen_kwargs # None
    /\ SuppliedAt("max_length") # 0
    /\ SuppliedAt("max_length") < SuppliedAt("max_new_tokens")
    /\ SuppliedValue("max_length") = Some(50)
    /\ SuppliedValue("max_new_tokens") = Some(20)
    /\ Resolved["max_new_tokens"] = Some(20)
    /\ ~HasKey("max_length")

\* C8: each of temperature, top_p, top_k and repetition_penalty resolves to
\* the caller's override when one is supplied and non-zero, and to the
\* session default when the override is absent, None or zero.
C8_SamplingOverrides ==
    gen_kwargs # None =>
        \A k \in SamplingKeys :
            Resolved[k] = IF SuppliedNonZero(k) THEN SuppliedValue(k) ELSE generating_args[k]

C8_Witness ==
    /\ gen_kwargs # None
    /\ SuppliedNonZero("temperature")
    /\ SuppliedAt("top_p") # 0 /\ SuppliedValue("top_p") = Some(0)
    /\ SuppliedAt("top_k") # 0 /\ SuppliedValue("top_k") = None
    /\ SuppliedAt("repetition_penalty") = 0
    /\ Resolved["temperature"] = Some(9)
    /\ Resolved["top_p"] = generating_args["top_p"]

-----------------------------------------------------------------------------
(* the specification of chat and stream_chat calls *)

Init ==
    /\ query = <<"B">>
    /\ history \in {None, Some(ExampleHistory)}
    /\ prefix = None
    /\ source_prefix = <<>>
    /\ generating_args \in {d \in SessionDefaults : d["temperature"] = Some(1)}
    /\ input_kwargs \in {<<>>, << <<"max_length", Some(50)>>, <<"max_new_tokens", Some(20)>> >>}
    /\ model_output \in ModelOutputs
    /\ IdleCalls

\* chat, line 85: gen_kwargs, prompt_length = self.process_args(...)
ChatCall ==
    /\ chat_pc = "idle"
    /\ cons = "created"
    /\ LET r == process_args(query, history, prefix, input_kwargs, source_prefix, generating_args)
       IN  /\ gen_kwargs' = Some(r.gen_kwargs)
           /\ prompt_length' = Some(r.prompt_length)
    /\ chat_pc' = "generating"
    /\ UNCHANGED <<inputVars, prompt, chat_error, response, usage, streamVars>>

\* chat, lines 86-90: generate returns; the new tokens are decoded and returned
ChatReturn ==
    /\ chat_pc = "generating"
    /\ LET generation_output == Generate(Val(gen_kwargs), model_output)
           outputs == NewTokenSpan(generation_output, Val(prompt_length))
       IN  /\ response' = Some(Decode(outputs))
           /\ usage' = Some(<<Val(prompt_length), Len(outputs)>>)
    /\ chat_pc' = "returned"
    /\ UNCHANGED <<inputVars, prompt, gen_kwargs, prompt_length, chat_error, streamVars>>

\* chat, line 86: generate raises; nothing catches it
ChatRaise ==
    /\ chat_pc = "generating"
    /\ chat_pc' = "raised"
    /\ chat_error' = "GenerationError"
    /\ UNCHANGED <<inputVars, prompt, gen_kwargs, prompt_length, response, usage, streamVars>>

\* stream_chat, lines 96-101, run by the first next() on the generator
StreamStart ==
    /\ cons = "created"
    /\ chat_pc # "generating"
    /\ LET r == process_args(query, history, prefix, input_kwargs, source_prefix, generating_args)
       IN  thread_kwargs' = Some(DictSet(r.gen_kwargs, "streamer", "streamer"))
    /\ streamer' = Some(NewStreamer)
    /\ thread' = "running"
    /\ cons' = "waiting"
    /\ waited' = 0
    /\ UNCHANGED <<inputVars, prompt, gen_kwargs, prompt_length, chatVars, cons_error,
                   thread_pos, produced, yielded, extra_next>>

ThreadUnchanged ==
    UNCHANGED <<inputVars, prompt, gen_kwargs, prompt_length, chatVars, cons, cons_error,
                thread_kwargs, yielded, waited, extra_next>>

\* generate hands the prompt's tokens to the streamer
ThreadPutPrompt ==
    /\ thread = "running"
    /\ thread_pos = 0
    /\ LET st == StreamerPut(Val(streamer), Val(thread_kwargs)["input_ids"])
       IN  /\ streamer' = Some(st)
           /\ produced' = produced \o Gained(Val(streamer).text_queue, st.text_queue)
    /\ thread_pos' = 1
    /\ UNCHANGED thread
    /\ ThreadUnchanged

\* generate hands the next new token to the streamer
ThreadPutToken ==
    /\ thread = "running"
    /\ thread_pos \in 1..Len(model_output)
    /\ LET st == StreamerPut(Val(streamer), <<model_output[thread_pos]>>)
       IN  /\ streamer' = Some(st)
           /\ produced' = produced \o Gained(Val(streamer).text_queue, st.text_queue)
    /\ thread_pos' = thread_pos + 1
    /\ UNCHANGED thread
    /\ ThreadUnchanged

\* generate is complete: it ends the streamer and returns, and the thread ends
ThreadEnd ==
    /\ thread = "running"
    /\ thread_pos = Len(model_output) + 1
    /\ LET st == StreamerEnd(Val(streamer))
       IN  /\ streamer' = Some(st)
           /\ produced' = produced \o Gained(Val(streamer).text_queue, st.text_queue)
    /\ thread' = "finished"
    /\ UNCHANGED thread_pos
    /\ ThreadUnchanged

\* generate raises in the thread
ThreadRaise ==
    /\ thread = "running"
    /\ thread' = "raised"
    /\ streamer' = Some(ThreadDies(Val(streamer)))
    /\ UNCHANGED <<thread_pos, produced>>
    /\ ThreadUnchanged

\* generate hangs in the thread
ThreadStall ==
    /\ thread = "running"
    /\ thread' = "stalled"
    /\ UNCHANGED <<thread_pos, streamer, produced>>
    /\ ThreadUnchanged

ConsumerUnchanged ==
    UNCHANGED <<inputVars, prompt, gen_kwargs, prompt_length, chatVars, thread,
                thread_kwargs, thread_pos, produced>>

\* one time unit passes while the generator is blocked in text_queue.get
Tick ==
    /\ cons = "waiting"
    /\ Val(streamer).text_queue = <<>>
    /\ ~GetExpired(waited)
    /\ waited < MaxWait
    /\ waited' = waited + 1
    /\ UNCHANGED <<cons, cons_error, streamer, yielded, extra_next>>
    /\ ConsumerUnchanged

\* text_queue.get returns an entry: a fragment is yielded (and the loop asks for
\* the next one), the stop signal ends the loop and the generator
ConsumerGet ==
    /\ cons = "waiting"
    /\ Val(streamer).text_queue # <<>>
    /\ LET value == Head(Val(streamer).text_queue)
       IN  IF value = StopSignal
           THEN /\ cons' = "done"
                /\ UNCHANGED yielded
           ELSE /\ yielded' = YieldText(yielded, Val(value))
                /\ UNCHANGED cons
    /\ streamer' = Some([Val(streamer) EXCEPT !.text_queue = Tail(@)])
    /\ waited' = 0
    /\ UNCHANGED <<cons_error, extra_next>>
    /\ ConsumerUnchanged

\* text_queue.get gives up: queue.Empty leaves the generator
ConsumerTimeout ==
    /\ cons = "waiting"
    /\ Val(streamer).text_queue = <<>>
    /\ GetExpired(waited)
    /\ cons' = "failed"
    /\ cons_error' = "queue.Empty"
    /\ UNCHANGED <<streamer, yielded, waited, extra_next>>
    /\ ConsumerUnchanged

\* next() on the generator after it ended: StopIteration, nothing is run again
NextAfterEnd ==
    /\ cons \in {"done", "failed"}
    /\ extra_next < MaxExtraNext
    /\ extra_next' = extra_next + 1
    /\ UNCHANGED <<cons, cons_error, streamer, yielded, waited>>
    /\ ConsumerUnchanged

Next ==
    \/ ChatCall
    \/ ChatReturn
    \/ ChatRaise
    \/ StreamStart
    \/ ThreadPutPrompt
    \/ ThreadPutToken
    \/ ThreadEnd
    \/ ThreadRaise
    \/ ThreadStall
    \/ Tick
    \/ ConsumerGet
    \/ ConsumerTimeout
    \/ NextAfterEnd

Spec == Init /\ [][Next]_vars

\* time passes, and the caller keeps iterating the generator
FairSpec ==
    /\ Spec
    /\ WF_vars(Tick)
    /\ WF_vars(ConsumerGet)
    /\ WF_vars(ConsumerTimeout)

-----------------------------------------------------------------------------
(* properties of chat and stream_chat *)

\* the fragments still waiting in the streamer's queue
Queued == IF streamer = None THEN <<>> ELSE Fragments(Val(streamer).text_queue)

\* C1: what the generator has yielded is, at every moment, the fragments the
\* generation queued, in their order, less those still queued; when the
\* generator ends normally it has yielded all of them, and their
\* concatenation is the response chat returned for the same call.
C1_StreamEqualsChat ==
    /\ yielded \o Queued = produced
    /\ cons = "done" => yielded = produced
    /\ (cons = "done" /\ chat_pc = "returned") => Concat(yielded) = Val(response)

C1_Witness ==
    /\ cons = "done"
    /\ chat_pc = "returned"
    /\ Len(yielded) >= 3
    /\ Concat(yielded) = <<"x", " ", "y">>
    /\ Val(response) = <<"x", " ", "y">>

\* a generator that has ended stays ended and yields nothing more
EndedStaysEnded == cons \in {"done", "failed"} => (cons' = cons /\ yielded' = yielded)

\* C2: once generation is complete and the stop signal queued, a generator
\* that has not already failed ends normally, having yielded every fragment;
\* and a generator that has ended stays ended and yields nothing more.
C2_FiniteOnce ==
    /\ (thread = "finished" /\ cons # "failed") ~> (cons = "done" /\ yielded = produced)
    /\ [][EndedStaysEnded]_vars

C2_Witness ==
    /\ thread = "finished"
    /\ cons = "done"
    /\ yielded = produced
    /\ Len(yielded) >= 2
    /\ extra_next = 1

\* C3: a blocked get never waits longer than the timeout, and once the
\* generation has stalled the generator ends with the queue's timeout failure.
C3_Timeout ==
    /\ [](waited <= StreamerTimeout)
    /\ (thread = "stalled") ~> (cons = "failed" /\ cons_error = "queue.Empty")

C3_Witness ==
    /\ thread = "stalled"
    /\ cons = "failed"
    /\ cons_error = "queue.Empty"
    /\ waited = StreamerTimeout

\* C4 as stated: when generation raises, the caller of chat, and the consumer
\* of stream_chat once its call has ended, has observed that error.
C4_ErrorPropagates ==
    /\ chat_pc = "raised" => chat_error = "GenerationError"
    /\ (thread = "raised" /\ cons \in {"done", "failed"}) => cons_error = "GenerationError"

\* C5 as stated: when generation fails, the caller has received no response
\* text at all.
C5_NoPartialResponse ==
    /\ chat_pc = "raised" => response = None
    /\ thread = "raised" => yielded = <<>>

\* C5 as amended: a failed chat returns no response; a failed stream_chat may
\* already have yielded fragments, but only fragments that were generated
\* before the failure, and it never ends normally.
C5_NoCompletedResponse ==
    /\ chat_pc = "raised" => (response = None /\ usage = None)
    /\ thread = "raised" => (cons # "done" /\ IsPrefix(yielded, produced))

C5_Witness ==
    /\ thread = "raised"
    /\ cons = "failed"
    /\ yielded # <<>>
    /\ chat_pc = "raised"

====
